---- MODULE Spec2Model ----
(***************************************************************************)
(* Model of lib/logger.js: the module-level configuration, the six        *)
(* logging functions the factory exports, write() and the two pending     *)
(* filesystem callbacks each write() leaves behind.                       *)
(*                                                                         *)
(* Ghost state (records what happened, never read by the program):        *)
(*   last    the most recent exported operation and its outcome            *)
(*   passed  the writeToFile options passed to the factory so far          *)
(*   the fields fn, appends, mkdirErr, appendErr, flagOnAppend of a write  *)
(*   record (flagOnAppend: writeToFile when fs.appendFile was issued)      *)
(***************************************************************************)
EXTENDS Naturals, Sequences, FiniteSets

\* ---------------------------------------------------------------- bounds
MaxOps == 3        \* calls of exported operations (factory, logging) per behaviour

VARIABLES
    isDebug,       \* lib/is-debug, loaded once (logger.js:41)
    processType,   \* process.type (logger.js:188)
    styleWarn,     \* chalk['orange'] (logger.js:63): a style, or undefined
    writeToFile,   \* logger.js:58
    dirExists,     \* the log directory exists on disk
    facades,       \* the facades returned so far: the option each was made with
    stdout,        \* lines printed through log = console.log
    writes,        \* the write() calls that passed line 71, in call order,
                   \* each with its console.error reports (errs)
    file,          \* bytes appended to appLogFile by this process
    nops,          \* calls of exported operations so far
    last,          \* ghost: the most recent exported operation
    passed         \* ghost: options passed to the factory so far

vars == <<isDebug, processType, styleWarn, writeToFile, dirExists, facades,
          stdout, writes, file, nops, last, passed>>

config == <<isDebug, processType, styleWarn>>

\* The six functions of the facade (logger.js:245-252).
Severities == {"log", "error", "debug", "devtools", "info", "warn"}

\* Argument lists of a logging call: none, or a label and a message argument.
Args == {<<>>, <<"X", "a">>}

\* ------------------------------------------------------------ formatting
\* module.parent.filename (logger.js:97): the module that required the logger.
parentFilename == "main.js"

\* _.toUpper on the file names of the model.
toUpper(s) == IF s = "main.js" THEN "MAIN.JS" ELSE s

\* parseLogEntry (logger.js:96-116): shift the label, join the rest.
\* shift() of an empty list gives undefined and leaves it empty.
parseLogEntry(messageList) ==
    [prefix  |-> toUpper(parentFilename),
     label   |-> IF messageList = <<>> THEN "undefined" ELSE Head(messageList),
     message |-> IF messageList = <<>> THEN <<>> ELSE Tail(messageList)]

\* A bracketed or bare field of a file line.
Field(k, v) == [k |-> k, v |-> v]

\* util.format('[%s] [%s] %s', prefix, label, message) (logger.js:131, 176).
formatPlain(p) ==
    <<Field("prefix", p.prefix), Field("label", p.label), Field("message", p.message)>>

\* util.format('[%s] [ERROR] [%s] %s', ...) (logger.js:148).
formatError(p) ==
    <<Field("prefix", p.prefix), Field("tag", "ERROR"),
      Field("label", p.label), Field("message", p.message)>>

\* util.format('[DEBUG] [%s] [%s] %s', ...) (logger.js:196, 213, 230).
formatDebug(p) ==
    <<Field("tag", "DEBUG"), Field("prefix", p.prefix),
      Field("label", p.label), Field("message", p.message)>>

\* date.toISOString() cut at T, the fraction dropped, the two halves reversed
\* (logger.js:74).
Reverse(s) == [i \in 1..Len(s) |-> s[Len(s) + 1 - i]]
dateString == Reverse(<<"YYYY-MM-DD", "HH:MM:SS">>)

\* '[' + dateString + '] ' + entry (logger.js:75).
logEntry(entry) == <<Field("timestamp", dateString)>> \o entry

CRLF == Field("crlf", "\r\n")

\* ------------------------------------------------- the logging functions
\* What one call of a logging function does before it returns: whether it
\* threw, the lines it passed to log(), the entries it passed to write().
Return == [threw |-> FALSE, out |-> <<>>, entries |-> <<>>]
Throw == [threw |-> TRUE, out |-> <<>>, entries |-> <<>>]

\* The styles of logger.js:59-63; chalk['orange'] is whatever chalk exports
\* under that name.
styleDefault == "cyan"
styleError == "red"
styleDebug == "yellow"
styleInfo == "green"

\* log(util.format(..., style.bold.inverse(prefix), style.bold(label),
\* style(message))) then write(entry) (logger.js:129-131 and alike);
\* style.bold of an undefined style is a TypeError.
printCli(style, entry) ==
    IF style = "undefined"
    THEN Throw
    ELSE [threw |-> FALSE,
          out |-> <<[fmt |-> "cli", style |-> style]>>,
          entries |-> <<entry>>]

\* printCliLogMessage (logger.js:122-132).
printCliLogMessage(args) ==
    IF Len(args) = 0 THEN Return
    ELSE printCli(styleDefault, formatPlain(parseLogEntry(args)))

\* printCliErrorMessage (logger.js:139-149).
printCliErrorMessage(args) ==
    IF Len(args) = 0 THEN Return
    ELSE printCli(styleError, formatError(parseLogEntry(args)))

\* printDevtoolsMessage (logger.js:155-177).
printDevtoolsMessage(args) ==
    IF Len(args) = 0 THEN Return
    ELSE IF ~isDebug THEN Return
    ELSE [threw |-> FALSE,
          out |-> <<[fmt |-> "devtools", style |-> "css"]>>,
          entries |-> <<formatPlain(parseLogEntry(args))>>]

\* printCliDebugMessage without the arguments.length check of line 185.
printCliDebugMessage_NoArgCheck(args) ==
    IF ~isDebug THEN Return
    ELSE IF processType = "renderer" THEN printDevtoolsMessage(args)
    ELSE printCli(styleDebug, formatDebug(parseLogEntry(args)))

\* printCliDebugMessage (logger.js:184-197).
printCliDebugMessage(args) ==
    IF Len(args) = 0 THEN Return
    ELSE IF ~isDebug THEN Return
    ELSE IF processType = "renderer" THEN printDevtoolsMessage(args)
    ELSE printCli(styleDebug, formatDebug(parseLogEntry(args)))

\* printCliInfoMessage (logger.js:204-214).
printCliInfoMessage(args) ==
    IF Len(args) = 0 THEN Return
    ELSE printCli(styleInfo, formatDebug(parseLogEntry(args)))

\* printCliWarnMessage (logger.js:221-231).
printCliWarnMessage(args) ==
    IF Len(args) = 0 THEN Return
    ELSE printCli(styleWarn, formatDebug(parseLogEntry(args)))

\* ------------------------------------------------------------- write()
\* write without the writeToFile check of line 71.
write_IgnoreFlag(entry) == <<[logEntry |-> logEntry(entry), st |-> "mkdirp"]>>

\* write (logger.js:70-78): nothing when writeToFile is falsy; otherwise
\* the entry is stamped and fs.mkdirp is issued with its callback pending.
write(entry) ==
    IF ~writeToFile THEN <<>>
    ELSE <<[logEntry |-> logEntry(entry), st |-> "mkdirp"]>>

\* The second argument of fs.appendFile (logger.js:83).
appendData(w) == writes[w].logEntry \o <<CRLF>>

\* The bytes of write w, as they land in the file.
Bytes(w, data) == [i \in 1..Len(data) |-> [w |-> w, f |-> data[i]]]

\* fs.writeFile in place of fs.appendFile: the file is replaced.
appendFile_Truncate(f, w, data) == Bytes(w, data)

\* fs.appendFile(appLogFile, data): one append of the whole buffer.
appendFile(f, w, data) == f \o Bytes(w, data)

\* A new write record: the pending operation and its ghost fields.
Pending(fn, p) ==
    [logEntry |-> p.logEntry, st |-> p.st, fn |-> fn,
     appends |-> 0, errs |-> 0, mkdirErr |-> FALSE, appendErr |-> FALSE,
     flagOnAppend |-> "none"]

RECURSIVE Issue(_, _)
\* write() called on each entry of a call, in order.
Issue(fn, entries) ==
    IF entries = <<>> THEN <<>>
    ELSE LET p == write(Head(entries))
         IN (IF p = <<>> THEN <<>> ELSE <<Pending(fn, p[1])>>)
            \o Issue(fn, Tail(entries))

\* ------------------------------------------------------------- actions
Init ==
    /\ isDebug \in BOOLEAN
    /\ processType \in {"browser", "renderer"}
    /\ styleWarn \in {"orange", "undefined"}
    /\ writeToFile = FALSE
    /\ dirExists = FALSE
    /\ facades = <<>>
    /\ stdout = <<>>
    /\ writes = <<>>
    /\ file = <<>>
    /\ nops = 0
    /\ last = [op |-> "none", argc |-> 0, facadeOpt |-> FALSE, flag |-> FALSE,
               outcome |-> "none", out |-> 0, wr |-> 0, sync |-> "none"]
    /\ passed = {}

\* module.exports without the synchronous mkdirpSync of lines 241-243.
moduleExports_NoSync(opt, ok) ==
    [writeToFile |-> opt, mkdirpSync |-> FALSE, threw |-> FALSE]

\* module.exports (logger.js:237-253) called with options.writeToFile
\* truthy or not, ok telling whether fs.mkdirpSync succeeds when called:
\* the flag it sets, whether it calls mkdirpSync, whether it throws instead
\* of returning a facade.
moduleExports(opt, ok) ==
    [writeToFile |-> opt, mkdirpSync |-> opt, threw |-> opt /\ ~ok]

\* A call of the factory.
Create(opt, ok) ==
    LET r == moduleExports(opt, ok) IN
    /\ nops < MaxOps
    /\ nops' = nops + 1
    /\ writeToFile' = r.writeToFile
    /\ passed' = passed \cup {opt}
    /\ dirExists' = (dirExists \/ (r.mkdirpSync /\ ok))
    /\ facades' = IF r.threw THEN facades ELSE Append(facades, opt)
    /\ last' = [op |-> "create", argc |-> 0, facadeOpt |-> opt, flag |-> opt,
                outcome |-> IF r.threw THEN "threw" ELSE "returned",
                out |-> 0, wr |-> 0,
                sync |-> IF ~opt THEN "none" ELSE IF ok THEN "ok" ELSE "failed"]
    /\ UNCHANGED <<config, stdout, writes, file>>

\* One call of facade function fn with arguments args, through a facade
\* that was constructed with option fopt; e is what the function does.
Call(fn, args, fopt, e) ==
    /\ \E f \in DOMAIN facades : facades[f] = fopt
    /\ nops < MaxOps
    /\ nops' = nops + 1
    /\ stdout' = stdout \o e.out
    /\ writes' = writes \o Issue(fn, e.entries)
    /\ last' = [op |-> fn, argc |-> Len(args), facadeOpt |-> fopt, flag |-> writeToFile,
                outcome |-> IF e.threw THEN "threw" ELSE "returned",
                out |-> Len(e.out), wr |-> Len(writes') - Len(writes),
                sync |-> "none"]
    /\ UNCHANGED <<config, writeToFile, dirExists, facades, file, passed>>

Log(args, fopt) == Call("log", args, fopt, printCliLogMessage(args))
Error(args, fopt) == Call("error", args, fopt, printCliErrorMessage(args))
Debug(args, fopt) == Call("debug", args, fopt, printCliDebugMessage(args))
Devtools(args, fopt) == Call("devtools", args, fopt, printDevtoolsMessage(args))
Info(args, fopt) == Call("info", args, fopt, printCliInfoMessage(args))
Warn(args, fopt) == Call("warn", args, fopt, printCliWarnMessage(args))

\* The fs.mkdirp callback without the return of line 80: the error is
\* reported and fs.appendFile is issued all the same.
mkdirpCallback_NoReturn(w, err) ==
    IF err
    THEN [writes[w] EXCEPT !.st = "appendFile", !.mkdirErr = TRUE, !.errs = @ + 1,
                           !.appends = @ + 1, !.flagOnAppend = writeToFile]
    ELSE [writes[w] EXCEPT !.st = "appendFile", !.appends = @ + 1,
                           !.flagOnAppend = writeToFile]

\* The fs.mkdirp callback reading writeToFile again and dropping the write
\* when it has become false.
mkdirpCallback_RecheckFlag(w, err) ==
    IF err
    THEN [writes[w] EXCEPT !.st = "settled", !.mkdirErr = TRUE, !.errs = @ + 1]
    ELSE IF ~writeToFile
    THEN [writes[w] EXCEPT !.st = "settled"]
    ELSE [writes[w] EXCEPT !.st = "appendFile", !.appends = @ + 1,
                           !.flagOnAppend = writeToFile]

\* What the callback of fs.mkdirp does to write w (logger.js:78-83): on an
\* error console.error it (errs) and stop, otherwise issue fs.appendFile.
mkdirpCallback(w, err) ==
    IF err
    THEN [writes[w] EXCEPT !.st = "settled", !.mkdirErr = TRUE, !.errs = @ + 1]
    ELSE [writes[w] EXCEPT !.st = "appendFile", !.appends = @ + 1,
                           !.flagOnAppend = writeToFile]

\* fs.mkdirp of write w finishes and its callback runs.
MkdirpDone(w, err) ==
    /\ writes[w].st = "mkdirp"
    /\ writes' = [writes EXCEPT ![w] = mkdirpCallback(w, err)]
    /\ dirExists' = (dirExists \/ ~err)
    /\ UNCHANGED <<config, writeToFile, facades, stdout, file, nops, last, passed>>

\* What the callback of fs.appendFile does to write w (logger.js:83-87).
appendFileCallback(w, err) ==
    IF err
    THEN [writes[w] EXCEPT !.st = "settled", !.appendErr = TRUE, !.errs = @ + 1]
    ELSE [writes[w] EXCEPT !.st = "settled"]

\* fs.appendFile of write w finishes (the bytes land unless it failed) and
\* its callback runs.
AppendFileDone(w, err) ==
    /\ writes[w].st = "appendFile"
    /\ file' = IF err THEN file ELSE appendFile(file, w, appendData(w))
    /\ writes' = [writes EXCEPT ![w] = appendFileCallback(w, err)]
    /\ UNCHANGED <<config, writeToFile, dirExists, facades, stdout, nops, last, passed>>

Next ==
    \/ \E opt \in BOOLEAN, ok \in BOOLEAN : Create(opt, ok)
    \/ \E args \in Args, fopt \in BOOLEAN : Log(args, fopt)
    \/ \E args \in Args, fopt \in BOOLEAN : Error(args, fopt)
    \/ \E args \in Args, fopt \in BOOLEAN : Debug(args, fopt)
    \/ \E args \in Args, fopt \in BOOLEAN : Devtools(args, fopt)
    \/ \E args \in Args, fopt \in BOOLEAN : Info(args, fopt)
    \/ \E args \in Args, fopt \in BOOLEAN : Warn(args, fopt)
    \/ \E w \in DOMAIN writes, err \in BOOLEAN : MkdirpDone(w, err)
    \/ \E w \in DOMAIN writes, err \in BOOLEAN : AppendFileDone(w, err)

Spec == Init /\ [][Next]_vars

\* ------------------------------------------------------------- properties
\* The last exported operation was a call of a logging function.
Logged == last.op \in Severities

\* The positions of the file that hold bytes of write w, and those bytes.
Pos(w) == {i \in DOMAIN file : file[i].w = w}
Contiguous(S) == \A i \in S, j \in S : \A k \in i..j : k \in S
BytesOf(w) == SelectSeq(file, LAMBDA b : b.w = w)
FieldsOf(w) == [i \in 1..Len(BytesOf(w)) |-> BytesOf(w)[i].f]
Kinds(fields) == [i \in 1..Len(fields) |-> fields[i].k]

\* Write w has a line of its own in the file: its bytes are one unbroken
\* run, they are the stamped entry, and a CRLF ends them and occurs nowhere
\* before the end.
WholeLine(w) ==
    /\ Pos(w) # {}
    /\ Contiguous(Pos(w))
    /\ LET l == FieldsOf(w) IN
       /\ SubSeq(l, 1, Len(l) - 1) = writes[w].logEntry
       /\ l[Len(l)].k = "crlf"
       /\ \A i \in 1..(Len(l) - 1) : l[i].k # "crlf"

\* Write w ran to the end without a filesystem error.
Succeeded(w) ==
    writes[w].st = "settled" /\ ~writes[w].mkdirErr /\ ~writes[w].appendErr

\* C1: with debug mode inactive, a call of debug, info, warn or devtools
\* with one or more arguments prints nothing and issues no write.
C1_DebugModeGate ==
    (Logged /\ last.op \in {"debug", "info", "warn", "devtools"}
            /\ ~isDebug /\ last.argc >= 1)
        => (last.out = 0 /\ last.wr = 0)

\* C2: a call of any of the six logging functions with no arguments prints
\* nothing, issues no write and returns without throwing, whatever
\* writeToFile, the debug flag and process.type are.
C2_ZeroArgsNoOp ==
    (Logged /\ last.argc = 0)
        => (last.out = 0 /\ last.wr = 0 /\ last.outcome = "returned")

C2_Witness ==
    /\ last.op = "warn" /\ last.argc = 0 /\ last.outcome = "returned"
    /\ writeToFile /\ isDebug /\ processType = "renderer"
    /\ styleWarn = "undefined"

\* C3: the writeToFile value a logging function of a facade reads in
\* write() is the option that facade was constructed with.
C3_FlagIsFacadeOption ==
    (Logged /\ last.out = 1) => (last.flag = last.facadeOpt)

\* C4: as long as every factory call passed a false (or no) writeToFile,
\* no logging call has entered a write, nothing was appended to the file
\* and the directory was not created.
C4_NoFileWhenDisabled ==
    (TRUE \notin passed) => (writes = <<>> /\ file = <<>> /\ ~dirExists)

C4_Witness ==
    /\ passed = {FALSE}
    /\ Len(stdout) >= 2
    /\ last.op = "error" /\ last.out = 1

C6_WriteFailureContained ==
    /\ (Logged /\ last.wr >= 1) => last.outcome = "returned"
    /\ \A w \in DOMAIN writes :
          /\ writes[w].appends <= 1
          /\ writes[w].errs = IF writes[w].mkdirErr \/ writes[w].appendErr THEN 1 ELSE 0
          /\ writes[w].mkdirErr => (writes[w].appends = 0 /\ writes[w].st = "settled")
          /\ (writes[w].mkdirErr \/ writes[w].appendErr) => Pos(w) = {}

\* The caller has returned, one write failed in fs.mkdirp and another in
\* fs.appendFile.
C6_Witness ==
    /\ Logged /\ last.wr = 1 /\ last.outcome = "returned"
    /\ \E u, v \in DOMAIN writes :
          /\ writes[u].mkdirErr /\ writes[u].errs = 1 /\ writes[u].appends = 0
          /\ writes[v].appendErr /\ writes[v].errs = 1

\* C7: every line of the file is [timestamp] [tag]? [prefix] [label]
\* message CRLF, the severity tag (when there is one) right after the
\* timestamp.
C7_TagAfterTimestamp ==
    \A w \in DOMAIN writes :
        Pos(w) # {} =>
            Kinds(FieldsOf(w)) \in
                {<<"timestamp", "prefix", "label", "message", "crlf">>,
                 <<"timestamp", "tag", "prefix", "label", "message", "crlf">>}

\* The severity tags of a line.
Tags(fields) == {fields[i].v : i \in {j \in DOMAIN fields : fields[j].k = "tag"}}

\* C8: a line written by error carries the tag ERROR, a line written by
\* debug, info or warn the tag DEBUG, a line written by log no tag,
\* whatever process.type is.
C8_OneTagPerSeverity ==
    \A w \in DOMAIN writes :
        Pos(w) # {} =>
            /\ writes[w].fn = "error" => Tags(FieldsOf(w)) = {"ERROR"}
            /\ writes[w].fn \in {"debug", "info", "warn"} => Tags(FieldsOf(w)) = {"DEBUG"}
            /\ writes[w].fn = "log" => Tags(FieldsOf(w)) = {}

\* C9: a factory call with writeToFile true returns a facade only with the
\* directory in place, and when its mkdirpSync fails it throws and returns
\* no facade.
C9_DirectoryBeforeFacade ==
    /\ []((\E f \in DOMAIN facades : facades[f]) => dirExists)
    /\ [][(last'.op = "create" /\ nops' = nops + 1) =>
            /\ (last'.sync = "failed") => (last'.outcome = "threw" /\ facades' = facades)
            /\ (last'.flag /\ facades' # facades) => dirExists']_vars

\* A facade made with writeToFile true was returned.
C9_Witness ==
    /\ last.op = "create" /\ last.flag /\ last.outcome = "returned"
    /\ Len(facades) >= 1 /\ dirExists

\* C10: a logging call issues a write exactly when writeToFile is true as
\* it enters write(), and nothing else ever issues one; a write once issued
\* runs to the end whatever the flag has become (a write that settled
\* without error has its line in the file), and every line of the file
\* comes from such a write.
C10_FlagReadAtEntry ==
    /\ []((Logged /\ last.out = 1) => (last.wr = IF last.flag THEN 1 ELSE 0))
    /\ [](\A w \in DOMAIN writes : Succeeded(w) => Pos(w) # {})
    /\ [](\A i \in DOMAIN file : file[i].w \in DOMAIN writes)
    /\ [][Len(writes') # Len(writes) =>
            (writeToFile /\ nops' = nops + 1 /\ last'.op \in Severities
                         /\ Len(writes') = Len(writes) + 1)]_vars

\* A write issued while the flag was true appended its line after a later
\* factory call had set the flag false.
C10_Witness ==
    /\ ~writeToFile
    /\ \E w \in DOMAIN writes :
          Succeeded(w) /\ writes[w].flagOnAppend = FALSE /\ Pos(w) # {}
====
